---- MODULE Spec2Model ----
(***************************************************************************)
(* A model of the flask-api repository: the authentication resource        *)
(* (src/resources/auth.py), the ORM mixin (src/mixins/resource.py) and the  *)
(* test fixtures (src/tests/conftest.py).                                   *)
(*                                                                          *)
(* The module holds four specifications over one set of variables; each    *)
(* leaves the variables of the other three untouched:                       *)
(*   AuthSpec   the HTTP handlers of AuthView                               *)
(*   PureSpec   the pure class methods sort_by and get_bulk_action_ids      *)
(*   Spec       save / update / delete / bulk_delete and the session fixture*)
(*   SeedSpec   the rotations / operating_times seeding fixtures            *)
(***************************************************************************)
EXTENDS Integers, Sequences, FiniteSets

VARIABLES
    \* ---- AuthView -------------------------------------------------------
    request,      \* the request being answered: endpoint, JSON body, jti, and
                  \* whether revoke_token raises for it
    response,     \* the response the handler returned (or the escaped exception)
    loginCalls,   \* the arguments authentication_manager.login was called with
    revoked,      \* the jtis authentication_manager.revoke_token has stored
    \* ---- pure class methods ---------------------------------------------
    pureIn,       \* the arguments of the call
    pureOut,      \* the value returned
    \* ---- ORM mixin and session fixture ----------------------------------
    db,           \* the durable contents of the model's table: id -> row
    conn,         \* the session fixture's connection: its open transaction
    before,       \* the table as it was when the session fixture was set up
    clock,        \* the wall clock read by tzware_datetime
    inst,         \* per record, the instance attributes that are not columns
    last,         \* the last mixin operation with its arguments and result
    \* ---- seeding fixtures -----------------------------------------------
    today,        \* the day of the year the test run happens on
    Rotation,     \* the records of the rotations table
    OperatingTime,\* the records of the operating_times table
    fixture       \* the position of the running fixture

authVars == <<request, response, loginCalls, revoked>>
pureVars == <<pureIn, pureOut>>
ormVars  == <<db, conn, before, clock, inst, last>>
seedVars == <<today, Rotation, OperatingTime, fixture>>
vars     == <<authVars, pureVars, ormVars, seedVars>>

\* Bounds of the model.
MaxCalls == 2
MaxLen == 2
MaxId == 2
MaxClock == 4
MaxDay == 10
NumMachines == 1

Range(s) == {s[i] : i \in DOMAIN s}

(***************************************************************************)
(* AuthView                                                                 *)
(***************************************************************************)
Missing == "<missing>"
Emails == {"client@endo.com", "nobody@endo.com"}
Passwords == {"client@password", "wrong"}
Jtis == {"jti1", "jti2"}

\* request.get_json(): the JSON bodies a client may post to /login.
Payloads == [email : Emails \cup {Missing}, password : Passwords \cup {Missing}]

NoRequest == [endpoint |-> "none", json |-> [email |-> Missing, password |-> Missing],
              jti |-> "jti1", raises |-> FALSE]

\* A response: the handler that answered, the HTTP status (-1: an exception
\* left the handler), and the JSON body as its key, its text and, for
\* validation errors, the fields the messages are about.
Body(key, text, fields) == [key |-> key, text |-> text, fields |-> fields]
NoResponse == [handler |-> "none", status |-> 0, body |-> Body("none", "", {})]

\* LoginSchema().load: the fields that fail validation (error.messages).
LoginSchemaMessages(json) == {f \in {"email", "password"} : json[f] = Missing}

LoginSchemaValidates(json) == LoginSchemaMessages(json) = {}

\* LoginSchema().load on a payload that validates: the deserialised data.
LoginSchemaLoad(json) == [identity |-> json.email, password |-> json.password]

\* authentication_manager.login(data): a token pair for the seeded user's
\* credentials, 401 otherwise.
AuthenticationManagerLogin(data) ==
    IF data.identity = "client@endo.com" /\ data.password = "client@password"
    THEN [handler |-> "login", status |-> 200, body |-> Body("tokens", data.identity, {})]
    ELSE [handler |-> "login", status |-> 401, body |-> Body("message", "Invalid credentials", {})]

\* The data is handed to the manager before the validation result is looked at.
login_unvalidated(json) ==
    [resp |-> AuthenticationManagerLogin(LoginSchemaLoad(json)),
     calls |-> <<LoginSchemaLoad(json)>>]

\* AuthView.login: the response and the calls made to authentication_manager.login.
login(json) ==
    IF ~LoginSchemaValidates(json)
    THEN [resp |-> [handler |-> "login", status |-> 422,
                    body |-> Body("errors", "Missing data for required field.",
                                  LoginSchemaMessages(json))],
          calls |-> <<>>]
    ELSE [resp |-> AuthenticationManagerLogin(LoginSchemaLoad(json)),
          calls |-> <<LoginSchemaLoad(json)>>]

Login ==
    /\ Len(loginCalls) < MaxCalls
    /\ \E json \in Payloads :
        /\ request' = [endpoint |-> "/login", json |-> json, jti |-> "jti1", raises |-> FALSE]
        /\ response' = login(json).resp
        /\ loginCalls' = loginCalls \o login(json).calls
    /\ UNCHANGED <<revoked, pureVars, ormVars, seedVars>>

\* The message of the success response documented for DELETE /refresh/revoke.
RefreshRevokedExample == "refresh token has been revoked"

\* Only an expected exception type is caught: the others leave the handler.
access_revoke_narrow_except(raises) ==
    IF raises
    THEN [handler |-> "access_token_revoke", status |-> -1,
          body |-> Body("exception", "escaped", {})]
    ELSE [handler |-> "access_token_revoke", status |-> 200,
          body |-> Body("message", "Access token has been revoked", {})]

\* The try / except of access_token_revoke: a bare except around
\* revoke_token; 200 is the framework's status for a returned dict.
access_token_revoke_response(raises) ==
    IF raises
    THEN [handler |-> "access_token_revoke", status |-> 500,
          body |-> Body("message", "Something went wrong", {})]
    ELSE [handler |-> "access_token_revoke", status |-> 200,
          body |-> Body("message", "Access token has been revoked", {})]

\* The try / except of refresh_token_revoke.
refresh_token_revoke_response(raises) ==
    IF raises
    THEN [handler |-> "refresh_token_revoke", status |-> 500,
          body |-> Body("message", "Something went wrong", {})]
    ELSE [handler |-> "refresh_token_revoke", status |-> 200,
          body |-> Body("message", "Access token has been revoked", {})]

\* authentication_manager.revoke_token(jti): stores the jti unless it raises.
RevokeToken(jti, raises) == IF raises THEN revoked ELSE revoked \cup {jti}

AccessTokenRevoke ==
    /\ \E jti \in Jtis, raises \in BOOLEAN :
        /\ request' = [endpoint |-> "/access/revoke", json |-> NoRequest.json,
                       jti |-> jti, raises |-> raises]
        /\ response' = access_token_revoke_response(raises)
        /\ revoked' = RevokeToken(jti, raises)
    /\ UNCHANGED <<loginCalls, pureVars, ormVars, seedVars>>

RefreshTokenRevoke ==
    /\ \E jti \in Jtis, raises \in BOOLEAN :
        /\ request' = [endpoint |-> "/refresh/revoke", json |-> NoRequest.json,
                       jti |-> jti, raises |-> raises]
        /\ response' = refresh_token_revoke_response(raises)
        /\ revoked' = RevokeToken(jti, raises)
    /\ UNCHANGED <<loginCalls, pureVars, ormVars, seedVars>>

AuthNext == Login \/ AccessTokenRevoke \/ RefreshTokenRevoke

(***************************************************************************)
(* ResourceMixin: the pure class methods                                    *)
(***************************************************************************)
\* cls.__table__.columns of a model that uses the mixin.
Columns == {"id", "name", "created_at", "updated_at"}

Fields == Columns \cup {"save", "bogus", ""}
Directions == {"asc", "desc", "ASC", "descending", ""}

\* The direction is reset together with an unknown field.
sort_by_coupled(field, direction) ==
    IF field \notin Columns
    THEN <<"created_at", "asc">>
    ELSE <<field, IF direction \notin {"asc", "desc"} THEN "asc" ELSE direction>>

\* ResourceMixin.sort_by
sort_by(field, direction) ==
    <<IF field \notin Columns THEN "created_at" ELSE field,
      IF direction \notin {"asc", "desc"} THEN "asc" ELSE direction>>

\* Python values an id may be: the integer v, or the string of its digits.
IdValues == [t : {"int", "str"}, v : 1..MaxId]

\* str(x)
Str(x) == [t |-> "str", v |-> x.v]

\* map(str, omit_ids): a one-pass iterator, here the values it has yet to yield.
MapStr(omit_ids) == [i \in DOMAIN omit_ids |-> Str(omit_ids[i])]

\* `id not in omit_ids` on the iterator: it is advanced until it yields id or
\* is exhausted, and what it passed is gone for the later tests.
RECURSIVE NotIn(_, _)
NotIn(id, it) ==
    IF it = <<>> THEN [result |-> TRUE, rest |-> <<>>]
    ELSE IF Head(it) = id THEN [result |-> FALSE, rest |-> Tail(it)]
    ELSE NotIn(id, Tail(it))

\* [id for id in ids if id not in omit_ids]
RECURSIVE ListComprehension(_, _)
ListComprehension(ids, it) ==
    IF ids = <<>> THEN <<>>
    ELSE LET t == NotIn(Head(ids), it)
         IN (IF t.result THEN <<Head(ids)>> ELSE <<>>) \o ListComprehension(Tail(ids), t.rest)

\* bool(omit_ids) of the map object: an object without __bool__ or __len__.
Truthy(it) == TRUE

\* ResourceMixin.get_bulk_action_ids
get_bulk_action_ids(ids, omit_ids) ==
    LET it == MapStr(omit_ids)
    IN IF Truthy(it) THEN ListComprehension(ids, it) ELSE ids

BoundedSeq(S, n) == UNION {[1..k -> S] : k \in 0..n}

NoCall == [fn |-> "none", field |-> "", direction |-> "", ids |-> <<>>, omit_ids |-> <<>>]
NoResult == [returned |-> FALSE, pair |-> <<"", "">>, ids |-> <<>>]

\* The calls of the two class methods, each with its arguments.
Calls ==
    {[NoCall EXCEPT !.fn = "sort_by", !.field = field, !.direction = direction] :
        field \in Fields, direction \in Directions}
    \cup
    {[NoCall EXCEPT !.fn = "get_bulk_action_ids", !.ids = ids, !.omit_ids = omit_ids] :
        ids \in BoundedSeq(IdValues, MaxLen), omit_ids \in BoundedSeq(IdValues, MaxLen)}

SortBy ==
    /\ pureIn.fn = "sort_by"
    /\ ~pureOut.returned
    /\ pureOut' = [NoResult EXCEPT !.returned = TRUE,
                                   !.pair = sort_by(pureIn.field, pureIn.direction)]
    /\ UNCHANGED <<pureIn, authVars, ormVars, seedVars>>

GetBulkActionIds ==
    /\ pureIn.fn = "get_bulk_action_ids"
    /\ ~pureOut.returned
    /\ pureOut' = [NoResult EXCEPT !.returned = TRUE,
                                   !.ids = get_bulk_action_ids(pureIn.ids, pureIn.omit_ids)]
    /\ UNCHANGED <<pureIn, authVars, ormVars, seedVars>>

PureNext == SortBy \/ GetBulkActionIds

(***************************************************************************)
(* ResourceMixin: the records of one model, and the session fixture         *)
(***************************************************************************)
Ids == 1..MaxId
Names == {"a", "b"}
NoTime == 0 - 1

\* A row of the model's table; a table maps every id to its row or to NoRow.
NoRow == [present |-> FALSE, name |-> "", created_at |-> 0, updated_at |-> 0]
EmptyTable == [i \in Ids |-> NoRow]

\* The attributes of a fresh instance that are not columns: the method save
\* (found on the class), and no attribute called bogus.
FreshAttrs == [save |-> "<bound method>", bogus |-> Missing]

\* The dicts passed to update: per key its value, or Missing / NoTime when the
\* dict does not hold the key.
ValuesDicts == [name : Names \cup {Missing}, updated_at : {NoTime, 0},
                save : {Missing, "x"}, bogus : {Missing, "x"}]

NoOp == [op |-> "none", id |-> 0, ids |-> <<>>,
         values |-> [name |-> Missing, updated_at |-> NoTime, save |-> Missing, bogus |-> Missing],
         ret |-> 0]

\* db.session as the mixin sees it: the session fixture puts its own session,
\* bound to its connection, in the place of the default one.
InTest == conn.active
View == IF InTest THEN conn.rows ELSE db

\* hasattr(self, key)
HasAttr(attrs, key) == key \in Columns \/ key = "save" \/ attrs[key] # Missing

\* The flush of an instance at commit: an UPDATE is emitted when a column has
\* changed, and onupdate=tzware_datetime fills updated_at unless the UPDATE
\* sets it.
Flush(old, new, now) ==
    IF new = old THEN new
    ELSE IF new.updated_at = old.updated_at THEN [new EXCEPT !.updated_at = now]
    ELSE new

\* Every key is set, whether the instance has the attribute or not.
update_without_hasattr(row, attrs, values, now) ==
    [row |-> Flush(row, [row EXCEPT
                 !.name = IF values.name # Missing THEN values.name ELSE @,
                 !.updated_at = IF values.updated_at # NoTime THEN values.updated_at ELSE @],
                 now),
     attrs |-> [save |-> IF values.save # Missing THEN values.save ELSE attrs.save,
                bogus |-> IF values.bogus # Missing THEN values.bogus ELSE attrs.bogus]]

\* ResourceMixin.update: the row and the other attributes of the instance
\* after the loop and the commit.
update(row, attrs, values, now) ==
    LET assigned == [row EXCEPT
            !.name = IF values.name # Missing /\ HasAttr(attrs, "name") THEN values.name ELSE @,
            !.updated_at = IF values.updated_at # NoTime /\ HasAttr(attrs, "updated_at")
                           THEN values.updated_at ELSE @]
    IN [row |-> Flush(row, assigned, now),
        attrs |-> [save |-> IF values.save # Missing /\ HasAttr(attrs, "save")
                            THEN values.save ELSE attrs.save,
                   bogus |-> IF values.bogus # Missing /\ HasAttr(attrs, "bogus")
                             THEN values.bogus ELSE attrs.bogus]]

\* The length of the list is returned in place of the number of rows deleted.
bulk_delete_len(rows, ids) ==
    [rows |-> [i \in Ids |-> IF i \in Range(ids) THEN NoRow ELSE rows[i]],
     ret |-> Len(ids)]

\* ResourceMixin.bulk_delete: DELETE ... WHERE id IN (ids), and the number of
\* rows it deleted.
bulk_delete(rows, ids) ==
    [rows |-> [i \in Ids |-> IF i \in Range(ids) THEN NoRow ELSE rows[i]],
     ret |-> Cardinality({i \in Ids : rows[i].present /\ i \in Range(ids)})]

\* db.session.commit(): in a test the session's savepoint is released into
\* the connection's transaction (and restart_savepoint opens the next one);
\* outside a test the rows become durable.
Commit(rows) ==
    IF InTest
    THEN conn' = [conn EXCEPT !.rows = rows] /\ db' = db
    ELSE db' = rows /\ conn' = conn

\* ResourceMixin.save of a new instance: INSERT with the column defaults.
Save ==
    /\ clock < MaxClock
    /\ \E i \in Ids, n \in Names :
        /\ ~View[i].present
        /\ Commit([View EXCEPT ![i] = [present |-> TRUE, name |-> n,
                                       created_at |-> clock, updated_at |-> clock]])
        /\ inst' = [inst EXCEPT ![i] = FreshAttrs]
        /\ last' = [NoOp EXCEPT !.op = "save", !.id = i]
    /\ clock' = clock + 1
    /\ UNCHANGED <<before, authVars, pureVars, seedVars>>

Update ==
    /\ clock < MaxClock
    /\ \E i \in Ids, values \in ValuesDicts :
        /\ View[i].present
        /\ LET r == update(View[i], inst[i], values, clock)
           IN /\ Commit([View EXCEPT ![i] = r.row])
              /\ inst' = [inst EXCEPT ![i] = r.attrs]
        /\ last' = [NoOp EXCEPT !.op = "update", !.id = i, !.values = values]
    /\ clock' = clock + 1
    /\ UNCHANGED <<before, authVars, pureVars, seedVars>>

\* ResourceMixin.delete
Delete ==
    /\ clock < MaxClock
    /\ \E i \in Ids :
        /\ View[i].present
        /\ Commit([View EXCEPT ![i] = NoRow])
        /\ last' = [NoOp EXCEPT !.op = "delete", !.id = i]
    /\ clock' = clock + 1
    /\ UNCHANGED <<before, inst, authVars, pureVars, seedVars>>

BulkDelete ==
    /\ clock < MaxClock
    /\ \E ids \in BoundedSeq(Ids, MaxLen) :
        /\ Commit(bulk_delete(View, ids).rows)
        /\ last' = [NoOp EXCEPT !.op = "bulk_delete", !.ids = ids,
                                !.ret = bulk_delete(View, ids).ret]
    /\ clock' = clock + 1
    /\ UNCHANGED <<before, inst, authVars, pureVars, seedVars>>

NoConn == [active |-> FALSE, rows |-> EmptyTable]

\* The session fixture up to its yield: conn.begin(), a session bound to the
\* connection, begin_nested(), and _db.session = sess.
SessionSetup ==
    /\ ~InTest
    /\ conn' = [active |-> TRUE, rows |-> db]
    /\ before' = db
    /\ last' = [NoOp EXCEPT !.op = "session_setup"]
    /\ UNCHANGED <<db, clock, inst, authVars, pureVars, seedVars>>

\* The outer transaction is committed at teardown.
txn_commit(durable, rows) == rows

\* txn.rollback(): what is durable after the connection's transaction ends.
txn_rollback(durable, rows) == durable

\* The session fixture after its yield: sess.remove(), txn.rollback(),
\* conn.close(). The result recorded is the number of rows discarded.
SessionTeardown ==
    /\ InTest
    /\ db' = txn_rollback(db, conn.rows)
    /\ conn' = NoConn
    /\ last' = [NoOp EXCEPT !.op = "session_teardown",
                            !.ret = Cardinality({i \in Ids : conn.rows[i] # db[i]})]
    /\ UNCHANGED <<before, clock, inst, authVars, pureVars, seedVars>>

OrmNext == Save \/ Update \/ Delete \/ BulkDelete \/ SessionSetup \/ SessionTeardown

(***************************************************************************)
(* The seeding fixtures rotations and operating_times                       *)
(***************************************************************************)
\* range(0, 10): the records a fixture creates per machine.
RecordsPerMachine == 10

Machines == 1..NumMachines
Days == 1..MaxDay

\* _get_random_date: the dates from January 1 to today, each named by its
\* day of the year (strftime("%Y-%m-%d") is one-to-one on them).
DateRange == 1..today

\* A measurement table: per machine and date, the number of records.
NoRecords == [m \in Machines |-> [d \in Days |-> 0]]

\* RotationService.is_exists / OperatingTimeService.is_exists
IsExists(table, date, machine_id) == table[machine_id][date] > 0

\* RotationService.create / OperatingTimeService.create: one more record.
Create(table, date, machine_id) ==
    [table EXCEPT ![machine_id][date] = @ + 1]

\* The date drawn is returned without asking whether a record holds it.
get_date_unchecked(table, date, machine_id) == TRUE

\* _get_rotation_date / _get_operating_time_date: whether the call that drew
\* `date` returns it; otherwise it calls itself for another draw.
get_date_returns(table, date, machine_id) == ~IsExists(table, date, machine_id)

\* The table the running fixture fills.
Table == IF fixture.name = "rotations" THEN Rotation ELSE OperatingTime

\* A test asks for the rotations fixture.
Rotations ==
    /\ fixture.name = "rotations"
    /\ fixture.state # "running"
    /\ fixture' = [fixture EXCEPT !.state = "running", !.machine = 1, !.i = 0]
    /\ UNCHANGED <<today, Rotation, OperatingTime, authVars, pureVars, ormVars>>

\* A test asks for the operating_times fixture.
OperatingTimes ==
    /\ fixture.name = "operating_times"
    /\ fixture.state # "running"
    /\ fixture' = [fixture EXCEPT !.state = "running", !.machine = 1, !.i = 0]
    /\ UNCHANGED <<today, Rotation, OperatingTime, authVars, pureVars, ormVars>>

\* The position after one more record of the current machine.
Advance ==
    IF fixture.i + 1 < RecordsPerMachine THEN [fixture EXCEPT !.i = @ + 1]
    ELSE IF fixture.machine < NumMachines
         THEN [fixture EXCEPT !.machine = @ + 1, !.i = 0]
         ELSE [fixture EXCEPT !.state = "idle", !.machine = 1, !.i = 0]

\* One call of _get_rotation_date / _get_operating_time_date with the date it
\* draws: the call either recurses (nothing but the stack changes) or returns
\* the date, and the loop body creates the record.
GetDate ==
    /\ fixture.state = "running"
    /\ \E date \in DateRange :
        IF get_date_returns(Table, date, fixture.machine)
        THEN /\ fixture' = Advance
             /\ IF fixture.name = "rotations"
                THEN /\ Rotation' = Create(Rotation, date, fixture.machine)
                     /\ UNCHANGED OperatingTime
                ELSE /\ OperatingTime' = Create(OperatingTime, date, fixture.machine)
                     /\ UNCHANGED Rotation
        ELSE UNCHANGED <<fixture, Rotation, OperatingTime>>
    /\ UNCHANGED <<today, authVars, pureVars, ormVars>>

\* Every date of the range holds a record of the machine: each call recurses,
\* until the interpreter's recursion limit ends the fixture with RecursionError.
RecursionError ==
    /\ fixture.state = "running"
    /\ \A date \in DateRange : ~get_date_returns(Table, date, fixture.machine)
    /\ fixture' = [fixture EXCEPT !.state = "RecursionError"]
    /\ UNCHANGED <<today, Rotation, OperatingTime, authVars, pureVars, ormVars>>

SeedNext == Rotations \/ OperatingTimes \/ GetDate \/ RecursionError

(***************************************************************************)
(* Initial states and specifications                                        *)
(***************************************************************************)
AuthInit ==
    /\ request = NoRequest
    /\ response = NoResponse
    /\ loginCalls = <<>>
    /\ revoked = {}

PureInit ==
    /\ pureIn = NoCall
    /\ pureOut = NoResult

\* db.drop_all(); db.create_all(): an empty table.
OrmInit ==
    /\ db = EmptyTable
    /\ conn = NoConn
    /\ before = EmptyTable
    /\ clock = 1
    /\ inst = [i \in Ids |-> FreshAttrs]
    /\ last = NoOp

SeedRest ==
    /\ today = 1
    /\ Rotation = NoRecords
    /\ OperatingTime = NoRecords
    /\ fixture = [name |-> "rotations", state |-> "idle", machine |-> 1, i |-> 0]

\* The tables are empty after db.create_all(); the run happens on some day of
\* the year. The two fixtures fill disjoint tables with the same code: a
\* behaviour follows the runs of one of them.
SeedInit ==
    /\ today \in Days
    /\ Rotation = NoRecords
    /\ OperatingTime = NoRecords
    /\ \E name \in {"rotations", "operating_times"} :
        fixture = [name |-> name, state |-> "idle", machine |-> 1, i |-> 0]

Init == AuthInit /\ PureInit /\ OrmInit /\ SeedRest
PureSpecInit ==
    /\ AuthInit /\ OrmInit /\ SeedRest
    /\ pureIn \in Calls
    /\ pureOut = NoResult

SeedSpecInit == AuthInit /\ PureInit /\ OrmInit /\ SeedInit

Next == OrmNext
Spec == Init /\ [][Next]_vars

AuthSpec == Init /\ [][AuthNext]_vars
PureSpec == PureSpecInit /\ [][PureNext]_vars
SeedSpec == SeedSpecInit /\ [][SeedNext]_vars

(***************************************************************************)
(* Properties                                                               *)
(***************************************************************************)

\* C1: a /login payload that fails LoginSchema validation is answered 422 with
\* the validation messages and authentication_manager.login is not called; a
\* payload that validates is handed to authentication_manager.login, once, and
\* the response is its result, unchanged.
C1_LoginValidation ==
    [][request'.endpoint = "/login" =>
        LET json == request'.json
        IN IF ~LoginSchemaValidates(json)
           THEN /\ response'.status = 422
                /\ response'.body.key = "errors"
                /\ response'.body.fields = LoginSchemaMessages(json)
                /\ response'.body.fields # {}
                /\ loginCalls' = loginCalls
           ELSE /\ loginCalls' = Append(loginCalls, LoginSchemaLoad(json))
                /\ response' = AuthenticationManagerLogin(LoginSchemaLoad(json))]_vars

\* An invalid payload was answered 422 after a valid one had reached the manager.
C1_Witness ==
    /\ request.endpoint = "/login"
    /\ ~LoginSchemaValidates(request.json)
    /\ response.status = 422
    /\ loginCalls # <<>>

\* C2: both revoke handlers answer 500 'Something went wrong' when revoke_token
\* raises and 200 with a message when it does not; no exception leaves them.
C2_RevokeOutcomes ==
    request.endpoint \in {"/access/revoke", "/refresh/revoke"} =>
        /\ response.handler =
             (IF request.endpoint = "/access/revoke"
              THEN "access_token_revoke" ELSE "refresh_token_revoke")
        /\ response.status \in {200, 500}
        /\ request.raises => /\ response.status = 500
                             /\ response.body = Body("message", "Something went wrong", {})
        /\ ~request.raises => /\ response.status = 200
                              /\ response.body.key = "message"
                              /\ request.jti \in revoked

\* revoke_token raised in a revoke handler after an earlier revocation went through.
C2_Witness ==
    /\ request.endpoint = "/access/revoke"
    /\ request.raises
    /\ response.status = 500
    /\ revoked # {}

\* C3: a successful DELETE /refresh/revoke says that the refresh token has been
\* revoked, which is not the message of a successful DELETE /access/revoke.
C3_RefreshRevokedMessage ==
    (response.handler = "refresh_token_revoke" /\ response.status = 200) =>
        /\ response.body.text = RefreshRevokedExample
        /\ response.body.text # access_token_revoke_response(FALSE).body.text

\* The elements of ids that are not the string of an element of omit_ids.
Kept(ids, omit_ids) ==
    LET omitted(x) == x \notin {Str(o) : o \in Range(omit_ids)}
    IN SelectSeq(ids, omitted)

\* C4: get_bulk_action_ids returns the elements of ids, in order, that are not
\* among the strings of omit_ids.
C4_BulkActionIds ==
    (pureIn.fn = "get_bulk_action_ids" /\ pureOut.returned) => pureOut.ids = Kept(pureIn.ids, pureIn.omit_ids)

\* C5: after bulk_delete(ids) no record with an id in ids exists, every other
\* record is as it was, and the number returned is the number of records that
\* had an id in ids.
C5_BulkDelete ==
    [][(last'.op = "bulk_delete" /\ clock' # clock) =>
        LET ids == Range(last'.ids)
        IN /\ \A i \in Ids : IF i \in ids THEN ~View'[i].present ELSE View'[i] = View[i]
           /\ last'.ret = Cardinality({i \in ids : View[i].present})]_vars

\* Two ids were given, one record was deleted and another record remains.
C5_Witness ==
    /\ last.op = "bulk_delete"
    /\ Len(last.ids) = 2
    /\ last.ret = 1
    /\ \E i \in Ids : View[i].present

\* What update(values) does to everything but updated_at: the keys that are
\* attributes are assigned, the others create nothing, the rest is unchanged.
UpdateAssigns(old, new, oldAttrs, newAttrs, v) ==
    /\ new.present
    /\ new.name = (IF v.name # Missing THEN v.name ELSE old.name)
    /\ new.created_at = old.created_at
    /\ newAttrs.save = (IF v.save # Missing THEN v.save ELSE oldAttrs.save)
    /\ newAttrs.bogus = Missing

\* C6 as stated: update(values) assigns values[key] for every key that is an
\* attribute, ignores the other keys, and leaves every attribute that values
\* does not name unchanged.
C6_UpdateFrame ==
    [][(last'.op = "update" /\ clock' # clock) =>
        LET i == last'.id
            v == last'.values
        IN /\ UpdateAssigns(View[i], View'[i], inst[i], inst'[i], v)
           /\ View'[i].updated_at =
                (IF v.updated_at # NoTime THEN v.updated_at ELSE View[i].updated_at)]_vars

\* C6 amended: as C6, except that updated_at is set to the current time by the
\* commit when the update changed a column and did not itself change
\* updated_at.
C6_UpdateFrameAmended ==
    [][(last'.op = "update" /\ clock' # clock) =>
        LET i == last'.id
            v == last'.values
            old == View[i]
            changesName == v.name # Missing /\ v.name # old.name
            changesUpdatedAt == v.updated_at # NoTime /\ v.updated_at # old.updated_at
        IN /\ UpdateAssigns(old, View'[i], inst[i], inst'[i], v)
           /\ \A j \in Ids \ {i} : View'[j] = View[j] /\ inst'[j] = inst[j]
           /\ View'[i].updated_at =
                (IF changesUpdatedAt THEN v.updated_at
                 ELSE IF changesName THEN clock
                 ELSE old.updated_at)]_vars

\* An update that named a column and a key that is no attribute, on a record
\* created earlier: the name was assigned and updated_at moved to the time of
\* the update.
C6_Witness ==
    /\ last.op = "update"
    /\ last.values.name = View[last.id].name
    /\ last.values.bogus # Missing
    /\ last.values.updated_at = NoTime
    /\ View[last.id].updated_at = clock - 1
    /\ View[last.id].created_at < clock - 1

\* C7: sort_by returns a column of the table and 'asc' or 'desc': the field
\* given when it is a column and 'created_at' otherwise, the direction given
\* when it is 'asc' or 'desc' and 'asc' otherwise, each decided on its own.
C7_SortBy ==
    (pureIn.fn = "sort_by" /\ pureOut.returned) =>
        /\ pureOut.pair[1] \in Columns
        /\ pureOut.pair[2] \in {"asc", "desc"}
        /\ pureOut.pair[1] = (IF pureIn.field \in Columns THEN pureIn.field ELSE "created_at")
        /\ pureOut.pair[2] = (IF pureIn.direction \in {"asc", "desc"}
                              THEN pureIn.direction ELSE "asc")

\* An unknown field was replaced while the direction 'desc' was kept.
C7_Witness ==
    /\ pureIn.fn = "sort_by"
    /\ pureIn.field \notin Columns
    /\ pureIn.direction = "desc"
    /\ pureOut.pair = <<"created_at", "desc">>

\* C8: no two Rotation records and no two OperatingTime records share a date
\* and a machine.
C8_UniqueDateMachine ==
    \A m \in Machines, d \in Days : Rotation[m][d] <= 1 /\ OperatingTime[m][d] <= 1

\* A fixture has created all its records and returned.
C8_Witness ==
    /\ fixture.state = "idle"
    /\ \E m \in Machines :
        \/ Cardinality({d \in Days : Rotation[m][d] = 1}) = RecordsPerMachine
        \/ Cardinality({d \in Days : OperatingTime[m][d] = 1}) = RecordsPerMachine

\* C9: after the teardown of the session fixture the table holds what it held
\* when the fixture was set up.
C9_TeardownRestores ==
    last.op = "session_teardown" => db = before

\* The teardown discarded rows that the test had committed.
C9_Witness ==
    /\ last.op = "session_teardown"
    /\ last.ret >= 1
    /\ \E i \in Ids : db[i].present

====
